---- MODULE Spec2Model ----
(***************************************************************************)
(* Model of src/src/App.jsx: a React component App that fetches a static   *)
(* product catalog through a simulated asynchronous call                   *)
(* (getAsyncProduccts, a promise resolved by a 3000 ms timer) from an      *)
(* effect declared without a dependency list, stores the result with       *)
(* setItems and renders it through the pure component List.                *)
(*                                                                         *)
(* Prices are held in hundredths of a dollar (32.5 is 3250).  A JavaScript *)
(* array is a pair [ref, val]: its identity and its contents, because      *)
(* React compares a new state with the old one by Object.is.               *)
(***************************************************************************)
EXTENDS Integers, Sequences, FiniteSets, TLC

VARIABLES
    catalog,        \* contents of the module-level array `products`
    mounted,        \* the App instance is mounted
    items,          \* the state of React.useState([]) of the instance
    renderPending,  \* a render of App is scheduled (mount, or a state change)
    effectPending,  \* a render was committed and its effect has not run yet
    dom,            \* what the last commit put on the page
    commits,        \* number of committed renders
    promises,       \* promises returned by getAsyncProduccts, in call order
    timers,         \* pending setTimeout callbacks
    microtasks,     \* promise reactions queued to run (promise ids)
    lateSetItems,   \* setItems calls made after the instance was unmounted
    console         \* what console.log printed

vars == <<catalog, mounted, items, renderPending, effectPending, dom, commits,
          promises, timers, microtasks, lateSetItems, console>>

----------------------------------------------------------------------------
(* Bounds of the model *)

MaxFetch == 4
TicksPerDelay == 5
MaxLen == 3
MaxId == 3
MaxRenders == 2

(* Program constants *)

Delay == 3000

----------------------------------------------------------------------------
(* The catalog, src/src/App.jsx:6-48 *)

products ==
    << [id |-> 1,  name |-> "React Book",        price |-> 3250],
       [id |-> 2,  name |-> "Angular Book",      price |-> 3050],
       [id |-> 3,  name |-> "JS Book",           price |-> 4000],
       [id |-> 4,  name |-> "CSS Book",          price |-> 2000],
       [id |-> 5,  name |-> "HTML Book",         price |-> 2500],
       [id |-> 6,  name |-> "Vue Book",          price |-> 3500],
       [id |-> 7,  name |-> "Svelte Book",       price |-> 3000],
       [id |-> 8,  name |-> "React Native Book", price |-> 4500],
       [id |-> 9,  name |-> "Flutter Book",      price |-> 5000],
       [id |-> 10, name |-> "Dart Book",         price |-> 3000] >>

\* Catalogs the data source is run with: the static one, its prefixes of 1 and
\* MaxLen records, and the empty one.
Catalogs == {SubSeq(products, 1, n) : n \in {0, 1, MaxLen, Len(products)}}

\* Catalogs List is rendered with: every sequence of at most MaxLen records
\* with pairwise different ids.
Names == {"JS Book", "CSS Book"}
Prices == {2000, 3250, 123456}
Records == [id : 1..MaxId, name : Names, price : Prices]
UniqueIds(s) == \A i, j \in 1..Len(s) : s[i].id = s[j].id => i = j
ListInputs ==
    UNION {{s \in [1..n -> Records] : UniqueIds(s)} : n \in 0..MaxLen}

----------------------------------------------------------------------------
(* List, src/src/App.jsx:88-102 *)

Pad(n, width) ==
    IF width = 3 /\ n < 10 THEN "00" \o ToString(n)
    ELSE IF (width = 3 /\ n < 100) \/ (width = 2 /\ n < 10) THEN "0" \o ToString(n)
    ELSE ToString(n)

RECURSIVE Grouped(_)
Grouped(n) ==
    IF n < 1000 THEN ToString(n)
    ELSE Grouped(n \div 1000) \o "," \o Pad(n % 1000, 3)

\* price.toLocaleString('en-US', {style: 'currency', currency: 'USD'})
toLocaleString(price) ==
    "$" \o Grouped(price \div 100) \o "." \o Pad(price % 100, 2)

Li(item) ==
    [key |-> item.id,
     h2  |-> "product name: " \o item.name,
     p   |-> "product price: " \o toLocaleString(item.price)]

RECURSIVE Map(_)
Map(s) == IF s = << >> THEN << >> ELSE <<Li(Head(s))>> \o Map(Tail(s))

ListDropsLast(its) ==
    [kind |-> "ul",
     children |-> Map(IF its = << >> THEN its ELSE SubSeq(its, 1, Len(its) - 1))]

List(its) == [kind |-> "ul", children |-> Map(its)]

----------------------------------------------------------------------------
(* App, src/src/App.jsx:63-84 *)

\* React.useState([]): a fresh empty array
InitialItems == [ref |-> "initial", val |-> << >>]

\* the JSX App returns: <List items={items} />
AppView(its) == List(its.val)

NoDom == [kind |-> "none", children |-> << >>]

\* React keeps the old state, and schedules nothing, when Object.is(new, old)
ObjectIsNever(a, b) == FALSE

ObjectIs(a, b) == a.ref = b.ref

----------------------------------------------------------------------------
(* getAsyncProduccts, src/src/App.jsx:51-58 *)

\* the value the timer callback resolves promise p with
ResponsePartial(p) ==
    [data |-> [result |-> [ref |-> "products",
                           val |-> IF catalog = << >> THEN catalog
                                   ELSE SubSeq(catalog, 1, Len(catalog) - 1)]]]

ResponseCopy(p) ==
    [data |-> [result |-> [ref |-> "copy" \o ToString(p), val |-> catalog]]]

Response(p) ==
    [data |-> [result |-> [ref |-> "products", val |-> catalog]]]

NoValue == [data |-> [result |-> [ref |-> "none", val |-> << >>]]]

\* the step by which simulated time advances
TickMs == Delay \div TicksPerDelay

\* a timer may fire once its delay has elapsed
DueAtOnce(t) == TRUE

Due(t) == t.remaining = 0

\* new Promise(...) with its setTimeout(..., 3000): promise and timer p
NewPromise ==
    [state |-> "pending", value |-> NoValue, reason |-> "",
     scheduled |-> 1, fired |-> 0, waited |-> 0, handled |-> 0]

NewTimer(p) == [promise |-> p, remaining |-> Delay]

Handled == Cardinality({p \in 1..Len(promises) : promises[p].handled > 0})

InFlight == Cardinality({p \in 1..Len(promises) : promises[p].handled = 0})

----------------------------------------------------------------------------
(* Initial state: the App instance is created and about to be rendered *)

Init ==
    /\ catalog \in Catalogs
    /\ mounted = TRUE
    /\ items = InitialItems
    /\ renderPending = TRUE
    /\ effectPending = FALSE
    /\ dom = NoDom
    /\ commits = 0
    /\ promises = << >>
    /\ timers = {}
    /\ microtasks = << >>
    /\ lateSetItems = 0
    /\ console = << >>

\* React renders App and commits the result; the effect of the committed
\* render is then pending, since it has no dependency list.
Render ==
    /\ mounted /\ renderPending /\ ~effectPending
    /\ microtasks = << >>
    /\ renderPending' = FALSE
    /\ dom' = AppView(items)
    /\ commits' = commits + 1
    /\ effectPending' = TRUE
    /\ UNCHANGED <<catalog, mounted, items, promises, timers, microtasks,
                   lateSetItems, console>>

\* the effect body: getAsyncProduccts().then(...).catch(...); the guard on
\* MaxFetch only keeps the state space finite, two fetches are the most the
\* program issues
RunEffectTwice ==
    /\ mounted /\ effectPending
    /\ microtasks = << >>
    /\ Len(promises) + 1 < MaxFetch
    /\ effectPending' = FALSE
    /\ promises' = promises \o <<NewPromise, NewPromise>>
    /\ timers' = timers \cup {NewTimer(Len(promises) + 1), NewTimer(Len(promises) + 2)}
    /\ UNCHANGED <<catalog, mounted, items, renderPending, dom, commits,
                   microtasks, lateSetItems, console>>

RunEffect ==
    /\ mounted /\ effectPending
    /\ microtasks = << >>
    /\ Len(promises) < MaxFetch
    /\ effectPending' = FALSE
    /\ promises' = Append(promises, NewPromise)
    /\ timers' = timers \cup {NewTimer(Len(promises) + 1)}
    /\ UNCHANGED <<catalog, mounted, items, renderPending, dom, commits,
                   microtasks, lateSetItems, console>>

\* simulated time advances by one step
Tick ==
    /\ microtasks = << >>
    /\ \E t \in timers : t.remaining > 0
    /\ timers' = {[t EXCEPT !.remaining = IF @ > TickMs THEN @ - TickMs ELSE 0] :
                  t \in timers}
    /\ promises' = [p \in 1..Len(promises) |->
                      IF \E t \in timers : t.promise = p /\ t.remaining > 0
                      THEN [promises[p] EXCEPT
                              !.waited = IF @ + TickMs > Delay THEN Delay ELSE @ + TickMs]
                      ELSE promises[p]]
    /\ UNCHANGED <<catalog, mounted, items, renderPending, effectPending, dom,
                   commits, microtasks, lateSetItems, console>>

\* the timer callback: resolve({data : {result : products}})
TimerFire(t) ==
    /\ microtasks = << >>
    /\ Due(t)
    /\ timers' = timers \ {t}
    /\ promises' = [promises EXCEPT ![t.promise] =
                      [@ EXCEPT !.fired = @ + 1,
                                !.state = "fulfilled",
                                !.value = Response(t.promise)]]
    /\ microtasks' = Append(microtasks, t.promise)
    /\ UNCHANGED <<catalog, mounted, items, renderPending, effectPending, dom,
                   commits, lateSetItems, console>>

\* the reaction .then(response => { setItems(response.data.result) })
ThenHandler ==
    /\ microtasks # << >>
    /\ promises[Head(microtasks)].state = "fulfilled"
    /\ LET p == Head(microtasks)
           v == promises[p].value.data.result
       IN /\ microtasks' = Tail(microtasks)
          /\ promises' = [promises EXCEPT ![p].handled = @ + 1]
          /\ IF ~mounted
             THEN /\ lateSetItems' = lateSetItems + 1
                  /\ UNCHANGED <<items, renderPending>>
             ELSE /\ UNCHANGED lateSetItems
                  /\ IF ObjectIs(v, items)
                     THEN UNCHANGED <<items, renderPending>>
                     ELSE /\ items' = v
                          /\ renderPending' = TRUE
    /\ UNCHANGED <<catalog, mounted, effectPending, dom, commits, timers, console>>

\* the owner removes the App instance; the effect returns no cleanup, so the
\* timers stay.  React runs a pending effect before it unmounts, and drops a
\* render that is still scheduled.
Unmount ==
    /\ mounted
    /\ microtasks = << >>
    /\ ~effectPending
    /\ mounted' = FALSE
    /\ renderPending' = FALSE
    /\ dom' = NoDom
    /\ UNCHANGED <<catalog, items, effectPending, commits, promises, timers,
                   microtasks, lateSetItems, console>>

Next ==
    \/ Render
    \/ RunEffect
    \/ Tick
    \/ \E t \in timers : TimerFire(t)
    \/ ThenHandler
    \/ Unmount

Spec == Init /\ [][Next]_vars

\* The event loop runs every task that is ready, and time passes.
FairSpec ==
    /\ Spec
    /\ WF_vars(Render)
    /\ WF_vars(RunEffect)
    /\ WF_vars(Tick)
    /\ WF_vars(\E t \in timers : TimerFire(t))
    /\ WF_vars(ThenHandler)

----------------------------------------------------------------------------
(* App driven by a data source that may fail: the timer callback of a      *)
(* substituted getAsyncProduccts calls reject(d) instead of resolve.       *)

Errors == {"network error", "timeout"}

TimerReject(t, d) ==
    /\ microtasks = << >>
    /\ Due(t)
    /\ timers' = timers \ {t}
    /\ promises' = [promises EXCEPT ![t.promise] =
                      [@ EXCEPT !.fired = @ + 1,
                                !.state = "rejected",
                                !.reason = d]]
    /\ microtasks' = Append(microtasks, t.promise)
    /\ UNCHANGED <<catalog, mounted, items, renderPending, effectPending, dom,
                   commits, lateSetItems, console>>

\* the reaction .catch(error => { console.log('Error:', error) })
CatchHandler ==
    /\ microtasks # << >>
    /\ promises[Head(microtasks)].state = "rejected"
    /\ LET p == Head(microtasks)
       IN /\ microtasks' = Tail(microtasks)
          /\ promises' = [promises EXCEPT ![p].handled = @ + 1]
          /\ console' = Append(console, <<"Error:", promises[p].reason>>)
    /\ UNCHANGED <<catalog, mounted, items, renderPending, effectPending, dom,
                   commits, timers, lateSetItems>>

NextInj ==
    \/ Next
    \/ \E t \in timers, d \in Errors : TimerReject(t, d)
    \/ CatchHandler

SpecInj == Init /\ [][NextInj]_vars

----------------------------------------------------------------------------
(* List rendered on its own with an arbitrary catalog as its items prop *)

InitList ==
    /\ catalog \in ListInputs
    /\ mounted = TRUE
    /\ items = InitialItems
    /\ renderPending = FALSE
    /\ effectPending = FALSE
    /\ dom = NoDom
    /\ commits = 0
    /\ promises = << >>
    /\ timers = {}
    /\ microtasks = << >>
    /\ lateSetItems = 0
    /\ console = << >>

RenderList ==
    /\ commits < MaxRenders
    /\ dom' = List(catalog)
    /\ commits' = commits + 1
    /\ UNCHANGED <<catalog, mounted, items, renderPending, effectPending,
                   promises, timers, microtasks, lateSetItems, console>>

SpecList == InitList /\ [][RenderList]_vars

----------------------------------------------------------------------------
(* Properties *)

Loaded == items = [ref |-> "products", val |-> catalog]

Quiescent ==
    /\ timers = {}
    /\ microtasks = << >>
    /\ ~renderPending
    /\ ~effectPending
    /\ items.val = catalog

\* C1: over the lifetime of one App instance the data source is called
\* exactly once; no later render calls it again.
C1_FetchedOnce == Len(promises) <= 1

\* C2: if the instance stays mounted it eventually holds the records the data
\* source resolved with, in their order, shows them through List, and keeps
\* them from then on.
C2_EventuallyLoaded ==
    ([]mounted) => <>[](Loaded /\ dom = List(catalog))

C2_Witness ==
    /\ mounted /\ Loaded /\ dom = List(catalog)
    /\ Len(catalog) = Len(products)
    /\ Handled > 0

\* C3: once a rejection of the data source has been handled, the mounted
\* instance shows an error indicator instead of the list.
C3_FailureShown ==
    (mounted /\ \E p \in 1..Len(promises) :
                   promises[p].state = "rejected" /\ promises[p].handled > 0)
        => dom.kind = "error"

\* C4: no setItems call is made on an instance that has been unmounted.
C4_NoWriteAfterTeardown == lateSetItems = 0

\* C5: once a settlement has been handled, no later step changes the stored
\* items; before the first handled settlement the items are the initial ones.
C5_Terminal ==
    [][/\ Handled >= 1 => items' = items
       /\ Handled' = 0 => items' = InitialItems]_vars

C5_Witness ==
    /\ mounted /\ Handled = 2 /\ Loaded /\ Len(catalog) > 0

\* C6: at most one fetch of the instance is unsettled or awaiting its handler.
C6_OneInFlight == InFlight <= 1 /\ Cardinality(timers) <= 1

C6_Witness == Len(promises) = 2 /\ InFlight = 1 /\ Cardinality(timers) = 1

\* C7: every call of the data source schedules one timer; its promise is
\* settled once, by that timer's callback and not before the delay has
\* elapsed, with the whole catalog in catalog order; it is never rejected.
C7_SettlesOnceWithCatalog ==
    \A p \in 1..Len(promises) :
        LET pr == promises[p]
            own == {t \in timers : t.promise = p}
        IN /\ pr.scheduled = 1
           /\ pr.fired <= 1
           /\ Cardinality(own) = 1 - pr.fired
           /\ pr.state \in {"pending", "fulfilled"}
           /\ pr.state = "fulfilled" <=> pr.fired = 1
           /\ pr.state = "pending" => pr.value = NoValue
           /\ pr.state = "fulfilled" =>
                 /\ pr.waited = Delay
                 /\ pr.value.data.result.val = catalog
                 /\ pr.value.data.result.val = SubSeq(products, 1, Len(catalog))
           /\ pr.handled <= 1

C7_Witness ==
    /\ Len(promises) = 2
    /\ promises[1].state = "fulfilled" /\ promises[2].state = "fulfilled"
    /\ promises[2].value.data.result.val = products

\* C8: while no settlement has been handled, a mounted and rendered instance
\* shows a loading indicator and not the list.
C8_LoadingIndicator ==
    (mounted /\ commits > 0 /\ Handled = 0) => dom.kind = "loading"

\* C9: List gives one item per record, in input order, each keyed by the
\* record's id and carrying its name and its price; the empty catalog gives no
\* item, and a second rendering gives the same output.
C9_ListOneItemPerRecord ==
    commits > 0 =>
        /\ dom.kind = "ul"
        /\ Len(dom.children) = Len(catalog)
        /\ \A i \in 1..Len(catalog) :
              /\ dom.children[i].key = catalog[i].id
              /\ dom.children[i].h2 = "product name: " \o catalog[i].name
              /\ dom.children[i].p =
                    "product price: " \o toLocaleString(catalog[i].price)

C9_Witness ==
    /\ commits = MaxRenders
    /\ Len(catalog) = MaxLen
    /\ catalog[1].id > catalog[2].id
    /\ dom.children[1].p = "product price: $1,234.56"
    /\ dom.children[2].p = "product price: $32.50"

\* C10: a mounted instance issues at most two fetches and then comes to rest
\* with no timer pending and the catalog in items; no fetch follows.
C10_Quiesces ==
    /\ [](Len(promises) <= 2)
    /\ ([]mounted) => <>[](Quiescent /\ ~ENABLED RunEffect)

C10_Witness ==
    /\ mounted /\ Quiescent /\ Len(promises) = 2 /\ Handled = 2

====
